---------------------------- MODULE Spec2Model ----------------------------
(***************************************************************************)
(* A model of the Keyence TIFF metadata extractor                          *)
(* (parse_metadata_with_factor_conversion.py).                             *)
(*                                                                         *)
(* Text is a sequence of symbols.  A symbol is one character ("<", ">",    *)
(* "/", " ", a digit, ...) or one tag name ("Data", "Image", "Comment",    *)
(* ...), which the regular expressions of the program only ever compare    *)
(* as a whole.  Unbounded integers are big-endian sequences of decimal     *)
(* digits, so that 64-bit patterns are exact.                              *)
(***************************************************************************)
EXTENDS Integers, Sequences, FiniteSets, TLC

VARIABLES
    pc,                 \* where the run stands
    value,              \* decode_double: its argument
    result,             \* decode_double: what it returned or raised
    reencoded,          \* the bit pattern of the returned double, as an integer
    data_str,           \* _extract_value: the text searched
    tag,                \* _extract_value: tag
    subtag,             \* _extract_value: subtag
    search_in,          \* _extract_value: search_in
    extracted,          \* _extract_value: what it returned
    nparts,             \* pieces the input text was put together from
    content,            \* parse_metadata: its argument (main: file_content)
    metadata,           \* parse_metadata: the dict it returned
    file_exists,        \* main: whether args.file_path can be opened
    content_bytes,      \* read_tiff_content: the bytes of the file
    tried,              \* read_tiff_content: the encodings attempted so far
    formatted_output,   \* main: what format_metadata returned
    error               \* main: the exception that reached "except Exception"

vars == <<pc, value, result, reencoded, data_str, tag, subtag, search_in,
          extracted, nparts, content, metadata, file_exists, content_bytes,
          tried, formatted_output, error>>

decodeVars == <<value, result, reencoded>>
extractVars == <<data_str, tag, subtag, search_in, extracted>>
mainVars == <<file_exists, content_bytes, tried, formatted_output, error>>

-----------------------------------------------------------------------------
(* Unbounded naturals as digit sequences (Python's int).                   *)

RECURSIVE Norm(_)
Norm(d) ==
    IF Len(d) <= 1 THEN (IF d = <<>> THEN <<0>> ELSE d)
    ELSE IF d[1] = 0 THEN Norm(Tail(d)) ELSE d

RECURSIVE MulAddFrom(_, _, _, _)
MulAddFrom(d, i, m, carry) ==
    IF i = 0
    THEN (IF carry = 0 THEN <<>>
          ELSE MulAddFrom(<<>>, 0, m, carry \div 10) \o <<carry % 10>>)
    ELSE LET t == d[i] * m + carry
         IN  MulAddFrom(d, i - 1, m, t \div 10) \o <<t % 10>>

\* d * m + a, for a small multiplier m and a small addend a
MulAdd(d, m, a) == Norm(MulAddFrom(d, Len(d), m, a))

RECURSIVE DivFrom(_, _, _, _, _)
DivFrom(d, i, m, rem, q) ==
    IF i > Len(d) THEN [q |-> Norm(q), r |-> rem]
    ELSE LET t == rem * 10 + d[i]
         IN  DivFrom(d, i + 1, m, t % m, Append(q, t \div m))

\* quotient and remainder of d by a small divisor m
DivMod(d, m) == DivFrom(d, 1, m, 0, <<>>)

RECURSIVE LexLess(_, _, _)
LexLess(a, b, i) ==
    IF i > Len(a) THEN FALSE
    ELSE IF a[i] # b[i] THEN a[i] < b[i]
    ELSE LexLess(a, b, i + 1)

\* a < b, for normalised a and b
BigLess(a, b) ==
    IF Len(a) # Len(b) THEN Len(a) < Len(b) ELSE LexLess(a, b, 1)

RECURSIVE AddFrom(_, _, _, _, _)
AddFrom(a, b, i, j, carry) ==
    IF i = 0 /\ j = 0 THEN (IF carry = 0 THEN <<>> ELSE <<carry>>)
    ELSE LET x == IF i = 0 THEN 0 ELSE a[i]
             y == IF j = 0 THEN 0 ELSE b[j]
             t == x + y + carry
         IN  AddFrom(a, b, IF i = 0 THEN 0 ELSE i - 1,
                     IF j = 0 THEN 0 ELSE j - 1, t \div 10) \o <<t % 10>>

BigAdd(a, b) == Norm(AddFrom(a, b, Len(a), Len(b), 0))

RECURSIVE SubFrom(_, _, _, _, _)
SubFrom(a, b, i, j, borrow) ==
    IF i = 0 THEN <<>>
    ELSE LET y == IF j = 0 THEN 0 ELSE b[j]
             t == a[i] - y - borrow
         IN  SubFrom(a, b, i - 1, IF j = 0 THEN 0 ELSE j - 1,
                     IF t < 0 THEN 1 ELSE 0)
             \o <<IF t < 0 THEN t + 10 ELSE t>>

\* a - b, for a >= b
BigSub(a, b) == Norm(SubFrom(a, b, Len(a), Len(b), 0))

BigZero == <<0>>
\* 2^51, 2^52, 2^53, 2^55 and 2^64
TwoTo51 == <<2, 2, 5, 1, 7, 9, 9, 8, 1, 3, 6, 8, 5, 2, 4, 8>>
TwoTo52 == <<4, 5, 0, 3, 5, 9, 9, 6, 2, 7, 3, 7, 0, 4, 9, 6>>
TwoTo53 == <<9, 0, 0, 7, 1, 9, 9, 2, 5, 4, 7, 4, 0, 9, 9, 2>>
TwoTo55 == <<3, 6, 0, 2, 8, 7, 9, 7, 0, 1, 8, 9, 6, 3, 9, 6, 8>>
TwoTo64 ==
    <<1, 8, 4, 4, 6, 7, 4, 4, 0, 7, 3, 7, 0, 9, 5, 5, 1, 6, 1, 6>>

IsOdd(d) == d[Len(d)] % 2 = 1

-----------------------------------------------------------------------------
(* decode_double: int(value), struct.pack('Q', .), struct.unpack('d', .)   *)

DigitChars == <<"0", "1", "2", "3", "4", "5", "6", "7", "8", "9">>
IsDigit(c) == \E i \in 1..10 : DigitChars[i] = c
DigitVal(c) == (CHOOSE i \in 1..10 : DigitChars[i] = c) - 1
IsSpace(c) == c \in {" ", "\n", "\t"}

RECURSIVE LStrip(_)
LStrip(s) == IF s # <<>> /\ IsSpace(Head(s)) THEN LStrip(Tail(s)) ELSE s

RECURSIVE RStrip(_)
RStrip(s) ==
    IF s # <<>> /\ IsSpace(s[Len(s)]) THEN RStrip(SubSeq(s, 1, Len(s) - 1))
    ELSE s

\* str.strip()
Strip(s) == RStrip(LStrip(s))

None == [kind |-> "None"]
Raise(exc) == [kind |-> "raise", exc |-> exc]

\* int(value) for a str: surrounding whitespace, an optional sign, then
\* digits that single underscores may separate; ValueError otherwise.
RECURSIVE DigitVals(_)
DigitVals(s) == IF s = <<>> THEN <<>> ELSE <<DigitVal(Head(s))>> \o DigitVals(Tail(s))

ParseInt(s) ==
    LET t == Strip(s)
        signed == t # <<>> /\ Head(t) \in {"+", "-"}
        body == IF signed THEN Tail(t) ELSE t
        wellFormed ==
            /\ body # <<>>
            /\ \A k \in 1..Len(body) : IsDigit(body[k]) \/ body[k] = "_"
            /\ IsDigit(body[1]) /\ IsDigit(body[Len(body)])
            /\ \A k \in 1..(Len(body) - 1) : ~(body[k] = "_" /\ body[k + 1] = "_")
        digs == SelectSeq(body, IsDigit)
    IN  IF ~wellFormed THEN Raise("ValueError")
        ELSE [kind |-> "int",
              neg |-> (signed /\ Head(t) = "-"),
              mag |-> Norm(DigitVals(digs))]

RECURSIVE LittleEndian(_, _)
LittleEndian(d, k) ==
    IF k = 0 THEN <<>>
    ELSE LET qr == DivMod(d, 256) IN <<qr.r>> \o LittleEndian(qr.q, k - 1)

\* struct.pack('Q', i): eight bytes in native (little-endian) order;
\* struct.error when i is negative or does not fit in 64 bits.
PackQ(i) ==
    IF (i.neg /\ i.mag # BigZero) \/ ~BigLess(i.mag, TwoTo64)
    THEN Raise("struct.error")
    ELSE [kind |-> "bytes", b |-> LittleEndian(i.mag, 8)]

RECURSIVE FromBytes(_, _)
FromBytes(b, k) ==
    IF k = 0 THEN BigZero ELSE MulAdd(FromBytes(b, k - 1), 256, b[k])

\* the bytes, most significant first, as one natural
BigEndianValue(b) == FromBytes(b, Len(b))

RECURSIVE Reverse(_)
Reverse(s) == IF s = <<>> THEN <<>> ELSE Reverse(Tail(s)) \o <<Head(s)>>

Float(sign, exp, man) == [kind |-> "float", sign |-> sign, exp |-> exp, man |-> man]

\* the eight bytes read with the most significant byte first
UnpackD_BigEndian(b) ==
    Float(b[1] \div 128,
          (b[1] % 128) * 16 + (b[2] \div 16),
          BigEndianValue(<<b[2] % 16, b[3], b[4], b[5], b[6], b[7], b[8]>>))

\* struct.unpack('d', b)[0]: the eight bytes read as an IEEE-754 binary64:
\* 1 sign bit, 11 exponent bits, 52 fraction bits.
UnpackD(b) ==
    Float(b[8] \div 128,
          (b[8] % 128) * 16 + (b[7] \div 16),
          BigEndianValue(<<b[7] % 16, b[6], b[5], b[4], b[3], b[2], b[1]>>))

\* struct.pack('d', x): the eight bytes of the double x
PackD(x) ==
    LET lo == LittleEndian(x.man, 7)
    IN  SubSeq(lo, 1, 6) \o <<(x.exp % 16) * 16 + lo[7], x.sign * 128 + (x.exp \div 16)>>

\* struct.unpack('Q', b)[0]
UnpackQ(b) == BigEndianValue(Reverse(b))

\* struct.unpack('d', p)[0]; the struct.error of pack is not caught
UnpackPacked(p) == IF p.kind = "raise" THEN p ELSE UnpackD(p.b)

\* struct.pack('Q', i) and on; "except (ValueError, TypeError)" gives None
PackParsed(i) == IF i.kind = "raise" THEN None ELSE UnpackPacked(PackQ(i))

decode_double(v) == PackParsed(ParseInt(v))

-----------------------------------------------------------------------------
(* Float arithmetic and formatting used by format_metadata.                *)

IsNaN(x) == x.exp = 2047 /\ x.man # BigZero
IsInf(x) == x.exp = 2047 /\ x.man = BigZero

\* x = Significand(x) * 2^Exponent(x), for a finite x
Significand(x) == IF x.exp = 0 THEN x.man ELSE BigAdd(TwoTo52, x.man)
Exponent(x) == (IF x.exp = 0 THEN 1 ELSE x.exp) - 1075

\* q / 2^k rounded to the nearest integer, ties to even; half and sticky
\* carry the bits already shifted out.
RECURSIVE RoundShift(_, _, _, _)
RoundShift(q, k, half, sticky) ==
    IF k = 0 \/ (q = BigZero /\ half = 0)
    THEN (IF half = 1 /\ (sticky \/ IsOdd(q)) THEN BigAdd(q, <<1>>) ELSE q)
    ELSE LET qr == DivMod(q, 2)
         IN  RoundShift(qr.q, k - 1, qr.r, sticky \/ half = 1)

RECURSIVE ShiftLeft(_, _)
ShiftLeft(q, k) ==
    IF k = 0 THEN q
    ELSE IF k >= 10 THEN ShiftLeft(MulAdd(q, 1024, 0), k - 10)
    ELSE ShiftLeft(MulAdd(q, 2, 0), k - 1)

DigitsToChars(d) == [k \in 1..Len(d) |-> DigitChars[d[k] + 1]]

RECURSIVE PadTo(_, _)
PadTo(d, len) == IF Len(d) >= len THEN d ELSE PadTo(<<0>> \o d, len)

\* f"{x:.6f}": the exact value of x rounded to six decimals (ties to even);
\* "inf", "-inf" and "nan" for the non-finite values.
Format6f(x) ==
    IF IsNaN(x) THEN <<"n", "a", "n">>
    ELSE IF IsInf(x)
    THEN (IF x.sign = 1 THEN <<"-">> ELSE <<>>) \o <<"i", "n", "f">>
    ELSE LET micro == MulAdd(MulAdd(Significand(x), 1000, 0), 1000, 0)
             e == Exponent(x)
             r == IF e >= 0 THEN ShiftLeft(micro, e) ELSE RoundShift(micro, -e, 0, FALSE)
             d == DigitsToChars(PadTo(r, 7))
         IN  (IF x.sign = 1 THEN <<"-">> ELSE <<>>)
             \o SubSeq(d, 1, Len(d) - 6) \o <<".">> \o SubSeq(d, Len(d) - 5, Len(d))

RECURSIVE Normalise(_, _)
Normalise(m, e) ==
    IF BigLess(m, TwoTo52) THEN Normalise(MulAdd(m, 2, 0), e - 1)
    ELSE [m |-> m, e |-> e]

ScaleDivisor == 1000

\* x / 1000 in binary64 arithmetic: the exact quotient rounded to the
\* nearest double, ties to even; a NaN comes back quiet.
DivideBy1000(x) ==
    IF IsNaN(x) /\ BigLess(x.man, TwoTo51)
    THEN Float(x.sign, x.exp, BigAdd(x.man, TwoTo51))
    ELSE IF x.exp = 2047 \/ Significand(x) = BigZero THEN x
    ELSE LET nm == Normalise(Significand(x), Exponent(x))
             qr == DivMod(MulAdd(nm.m, 4096, 0), ScaleDivisor)
             t == IF BigLess(qr.q, TwoTo55) THEN 2 ELSE 3
             e == nm.e - 12 + t + 1075
             shift == IF e >= 1 THEN t ELSE t + (1 - e)
             m == RoundShift(qr.q, shift, 0, qr.r # 0)
         IN  IF e >= 1
             THEN (IF m = TwoTo53 THEN Float(x.sign, e + 1, BigZero)
                   ELSE Float(x.sign, e, BigSub(m, TwoTo52)))
             ELSE (IF BigLess(m, TwoTo52) THEN Float(x.sign, 0, m)
                   ELSE Float(x.sign, 1, BigSub(m, TwoTo52)))

-----------------------------------------------------------------------------
(* re.search for the patterns of the program.  A pattern is a sequence of  *)
(* elements: a literal symbol, [^c]* (greedy), .*? (lazy, DOTALL), and the *)
(* two ends of capture group 1.                                            *)

Lit(c) == [op |-> "lit", c |-> c]
NotStar(c) == [op |-> "notstar", c |-> c]
Lazy == [op |-> "lazy", c |-> ""]
GroupOpen == [op |-> "open", c |-> ""]
GroupClose == [op |-> "close", c |-> ""]

NoMatch == [ok |-> FALSE, start |-> 0, gs |-> 0, ge |-> 0, end |-> 0]

SetMin(S) == CHOOSE x \in S : \A y \in S : x <= y
SetMax(S) == CHOOSE x \in S : \A y \in S : x >= y

\* The first way, in the backtracking order of the engine, in which
\* pat[k..] matches s from position i on: [^c]* tries its longest run
\* first, .*? its shortest.
RECURSIVE MatchAt(_, _, _, _, _, _, _)
MatchAt(pat, k, s, i, start, gs, ge) ==
    IF k > Len(pat)
    THEN [ok |-> TRUE, start |-> start, gs |-> gs, ge |-> ge, end |-> i]
    ELSE LET e == pat[k]
         IN  CASE e.op = "lit" ->
                    IF i <= Len(s) /\ s[i] = e.c
                    THEN MatchAt(pat, k + 1, s, i + 1, start, gs, ge)
                    ELSE NoMatch
               [] e.op = "open" -> MatchAt(pat, k + 1, s, i, start, i, ge)
               [] e.op = "close" -> MatchAt(pat, k + 1, s, i, start, gs, i)
               [] e.op = "notstar" ->
                    LET runEnd == SetMin({j \in i..Len(s) : s[j] = e.c} \cup {Len(s) + 1})
                        good == {j \in i..runEnd :
                                    MatchAt(pat, k + 1, s, j, start, gs, ge).ok}
                    IN  IF good = {} THEN NoMatch
                        ELSE MatchAt(pat, k + 1, s, SetMax(good), start, gs, ge)
               [] e.op = "lazy" ->
                    LET good == {j \in i..(Len(s) + 1) :
                                    MatchAt(pat, k + 1, s, j, start, gs, ge).ok}
                    IN  IF good = {} THEN NoMatch
                        ELSE MatchAt(pat, k + 1, s, SetMin(good), start, gs, ge)

\* the match at the leftmost position from which the pattern matches
SearchFrom(pat, s) ==
    LET starts == {i \in 1..(Len(s) + 1) : MatchAt(pat, 1, s, i, i, 0, 0).ok}
    IN  IF starts = {} THEN NoMatch
        ELSE MatchAt(pat, 1, s, SetMin(starts), SetMin(starts), 0, 0)

\* re.search(pat, s, re.DOTALL): the match at the leftmost position
re_search(pat, s) == SearchFrom(pat, s)

\* match.group(1)
Group1(s, m) == SubSeq(s, m.gs, m.ge - 1)

\* r'<Data>(.*?)</Data>'
DataPattern ==
    <<Lit("<"), Lit("Data"), Lit(">"), GroupOpen, Lazy, GroupClose,
      Lit("<"), Lit("/"), Lit("Data"), Lit(">")>>

\* rf'<{name} [^>]*>(.*?)</{name}>'
BlockPattern(name) ==
    <<Lit("<"), Lit(name), Lit(" "), NotStar(">"), Lit(">"),
      GroupOpen, Lazy, GroupClose,
      Lit("<"), Lit("/"), Lit(name), Lit(">")>>

\* rf'<{tag} [^>]*>([^<]*)</{tag}>'
DirectPattern(tag_) ==
    <<Lit("<"), Lit(tag_), Lit(" "), NotStar(">"), Lit(">"),
      GroupOpen, NotStar("<"), GroupClose,
      Lit("<"), Lit("/"), Lit(tag_), Lit(">")>>

\* rf'<{tag} [^>]*>.*?<{subtag} [^>]*>([^<]*)</{subtag}>.*?</{tag}>'
NestedPattern(tag_, subtag_) ==
    <<Lit("<"), Lit(tag_), Lit(" "), NotStar(">"), Lit(">"), Lazy,
      Lit("<"), Lit(subtag_), Lit(" "), NotStar(">"), Lit(">"),
      GroupOpen, NotStar("<"), GroupClose,
      Lit("<"), Lit("/"), Lit(subtag_), Lit(">"), Lazy,
      Lit("<"), Lit("/"), Lit(tag_), Lit(">")>>

-----------------------------------------------------------------------------
(* _extract_value and parse_metadata                                       *)

Str(s) == [kind |-> "str", s |-> s]

\* an argument left at its default None
NoArg == ""

\* "return match.group(1).strip() if match else None"
StrippedGroup(data, match) ==
    IF match.ok THEN Str(Strip(Group1(data, match))) ELSE None

\* the search below "if search_in:"
ExtractIn(data, tag_, subtag_) ==
    StrippedGroup(data,
                  re_search(IF subtag_ # NoArg THEN NestedPattern(tag_, subtag_)
                            ELSE DirectPattern(tag_),
                            data))

\* the search left on the whole text once the wrapper is found
ExtractInOuter_WholeText(data, outer_match, tag_, subtag_) ==
    IF ~outer_match.ok THEN None
    ELSE ExtractIn(data, tag_, subtag_)

\* "if not outer_match: return None", "data_str = outer_match.group(1)"
ExtractInOuter(data, outer_match, tag_, subtag_) ==
    IF ~outer_match.ok THEN None
    ELSE ExtractIn(Group1(data, outer_match), tag_, subtag_)

_extract_value(data, tag_, subtag_, search_in_) ==
    IF search_in_ # NoArg
    THEN ExtractInOuter(data, re_search(BlockPattern(search_in_), data), tag_, subtag_)
    ELSE ExtractIn(data, tag_, subtag_)

\* The fields of each section as parse_metadata extracts them, in order:
\* the key, and the arguments of the _extract_value call.
Field(key, tag_, subtag_, search_in_, is_double) ==
    [key |-> key, tag |-> tag_, subtag |-> subtag_, search_in |-> search_in_,
     is_double |-> is_double]

ImageFields ==
    <<Field(<<"Comment">>, "Comment", NoArg, NoArg, FALSE),
      Field(<<"OriginalImageSize_Width">>, "OriginalImageSize", "Width", NoArg, FALSE),
      Field(<<"OriginalImageSize_Height">>, "OriginalImageSize", "Height", NoArg, FALSE),
      Field(<<"SavingImageSize_Width">>, "SavingImageSize", "Width", NoArg, FALSE),
      Field(<<"SavingImageSize_Height">>, "SavingImageSize", "Height", NoArg, FALSE),
      Field(<<"DigitalZoom">>, "DigitalZoom", NoArg, NoArg, FALSE),
      Field(<<"Calibration">>, "Calibration", NoArg, NoArg, TRUE),
      Field(<<"Focus">>, "Focus", NoArg, NoArg, TRUE),
      Field(<<"PatchNumber">>, "PatchNumber", NoArg, NoArg, FALSE)>>

LensFields ==
    <<Field(<<"LensName">>, "LensName", NoArg, NoArg, FALSE),
      Field(<<"Magnification">>, "Magnification", NoArg, NoArg, FALSE),
      Field(<<"NumericalAperture">>, "NumericalAperture", NoArg, NoArg, TRUE),
      Field(<<"WorkingDistance">>, "WorkingDistance", NoArg, NoArg, TRUE),
      Field(<<"LiquidImmersion">>, "LiquidImmersion", NoArg, NoArg, FALSE),
      Field(<<"RevolverPosition">>, "RevolverPosition", NoArg, NoArg, FALSE)>>

ShootingFields ==
    <<Field(<<"StageLocationX">>, "StageLocationX", NoArg, NoArg, FALSE),
      Field(<<"StageLocationY">>, "StageLocationY", NoArg, NoArg, FALSE),
      Field(<<"StageLocationZ">>, "StageLocationZ", NoArg, NoArg, FALSE),
      Field(<<"Channel">>, "Channel", NoArg, NoArg, FALSE),
      Field(<<"Observation">>, "Observation", NoArg, NoArg, FALSE),
      Field(<<"PseudoColor">>, "PseudoColor", NoArg, "Parameter", FALSE),
      Field(<<"Binning">>, "Binnin", NoArg, "Parameter", FALSE),
      Field(<<"ExposureTime_Numerator">>, "ExposureTime", "Numerator", NoArg, FALSE),
      Field(<<"ExposureTime_Denominator">>, "ExposureTime", "Denominator", NoArg, FALSE),
      Field(<<"PixelMode">>, "PixelMode", NoArg, "Parameter", FALSE),
      Field(<<"CameraGain">>, "CameraGain", NoArg, "Parameter", FALSE),
      Field(<<"CameraHardwareGain">>, "CameraHardwareGain", NoArg, "Parameter", FALSE)>>

\* extract_and_mark: the key is the tag, with '*' appended for a double
extract_and_mark(data, f) ==
    [k |-> IF f.is_double THEN Append(f.key, "*") ELSE f.key,
     v |-> _extract_value(data, f.tag, f.subtag, f.search_in)]

\* metadata[k] = v on an insertion-ordered dict
DictSet(d, k, v) ==
    IF \E i \in 1..Len(d) : d[i].k = k
    THEN [i \in 1..Len(d) |-> IF d[i].k = k THEN [k |-> k, v |-> v] ELSE d[i]]
    ELSE Append(d, [k |-> k, v |-> v])

HasKey(d, k) == \E i \in 1..Len(d) : d[i].k = k
DictGet(d, k) == d[CHOOSE i \in 1..Len(d) : d[i].k = k].v

\* "metadata[k] = v"
SetItem(d, kv) == DictSet(d, kv.k, kv.v)

RECURSIVE ExtractFields(_, _, _, _)
ExtractFields(d, data, fields, i) ==
    IF i > Len(fields) THEN d
    ELSE ExtractFields(SetItem(d, extract_and_mark(data, fields[i])), data, fields, i + 1)

\* the fields looked for in the whole block when the section is missing
SectionFields_Unguarded(d, data, section_match, fields) ==
    ExtractFields(d,
                  IF section_match.ok THEN Group1(data, section_match) ELSE data,
                  fields, 1)

\* the body of one "if <section>_match:" block of parse_metadata
SectionFields(d, data, section_match, fields) ==
    IF section_match.ok
    THEN ExtractFields(d, Group1(data, section_match), fields, 1)
    ELSE d

\* "<section>_match = re.search(...)" and the block below it
ExtractSection(d, data, name, fields) ==
    SectionFields(d, data, re_search(BlockPattern(name), data), fields)

\* parse_metadata from "data_str = match.group(1)" on
ParseData(data) ==
    ExtractSection(
        ExtractSection(
            ExtractSection(<<>>, data, "Image", ImageFields),
            data, "Lens", LensFields),
        data, "Shooting", ShootingFields)

\* the whole text parsed when there is no <Data> block
ParseMatched_WholeText(text, match) ==
    ParseData(IF match.ok THEN Group1(text, match) ELSE text)

\* "if not match: return {}"
ParseMatched(text, match) ==
    IF ~match.ok THEN <<>> ELSE ParseData(Group1(text, match))

parse_metadata(text) == ParseMatched(text, re_search(DataPattern, text))

-----------------------------------------------------------------------------
(* format_metadata                                                         *)

EndsWithStar(key) == key[Len(key)] = "*"

CouldNotDecode == Str(<<"C", "o", "u", "l", "d", " ", "n", "o", "t", " ", "d", "e", "c", "o", "d", "e">>)
UmPixel == <<" ", "u", "m", "/", "p", "i", "x", "e", "l">>

\* every double field divided by 1000
RenderDecoded_ScaleEveryDouble(key, decoded_value) ==
    IF decoded_value.kind = "raise" THEN decoded_value
    ELSE IF decoded_value.kind = "float"
    THEN (IF key = <<"Calibration", "*">>
          THEN Str(Format6f(DivideBy1000(decoded_value)) \o UmPixel)
          ELSE Str(Format6f(DivideBy1000(decoded_value))))
    ELSE CouldNotDecode

\* "if decoded_value is not None: ... else: ...": the text shown for a
\* double field; an exception of decode_double goes on to the caller
RenderDecoded(key, decoded_value) ==
    IF decoded_value.kind = "raise" THEN decoded_value
    ELSE IF decoded_value.kind = "float"
    THEN (IF key = <<"Calibration", "*">>
          THEN Str(Format6f(DivideBy1000(decoded_value)) \o UmPixel)
          ELSE Str(Format6f(decoded_value)))
    ELSE CouldNotDecode

\* the body of "if value is not None:": the value stored under key
FormatValue(key, v) ==
    IF EndsWithStar(key) THEN RenderDecoded(key, decode_double(v.s)) ELSE v

\* the loop over metadata.items(); an exception ends it
RECURSIVE DecodeItems(_, _, _)
RECURSIVE StoreItem(_, _, _, _)
StoreItem(md, i, decoded, fv) ==
    IF fv.kind = "raise" THEN fv
    ELSE DecodeItems(md, i + 1, DictSet(decoded, md[i].k, fv))

DecodeItems(md, i, decoded) ==
    IF i > Len(md) THEN [kind |-> "dict", d |-> decoded]
    ELSE IF md[i].v = None THEN DecodeItems(md, i + 1, decoded)
    ELSE StoreItem(md, i, decoded, FormatValue(md[i].k, md[i].v))

RECURSIVE TableRows(_)
TableRows(d) ==
    IF d = <<>> THEN <<>>
    ELSE Head(d).k \o <<"\t">> \o Head(d).v.s \o <<"\n">> \o TableRows(Tail(d))

TableHeader ==
    <<"* Indicates an IEEE 754 double-precision value that has been converted.",
      "\n", "Parameter", "\t", "Value", "\n">>

\* "if output_format == 'table': ... elif ... else: raise ValueError"
RenderOutput(decoded_metadata, output_format) ==
    IF decoded_metadata.kind = "raise" THEN decoded_metadata
    ELSE IF output_format = "table"
    THEN Str(TableHeader \o TableRows(decoded_metadata.d))
    ELSE IF output_format = "dict" THEN decoded_metadata
    ELSE Raise("ValueError")

format_metadata(md, output_format) ==
    IF md = <<>> THEN Str(<<"No metadata found.">>)
    ELSE RenderOutput(DecodeItems(md, 1, <<>>), output_format)

-----------------------------------------------------------------------------
(* read_tiff_content: bytes.decode(encoding).  A byte below 0x80 is the    *)
(* symbol it encodes; a byte from 0x80 on is named by its hexadecimal      *)
(* digits, and HighByte gives its number.                                  *)

\* the single-byte encoding tried first
Encodings_Latin1First == <<"latin-1", "utf-8", "ascii">>

Encodings == <<"utf-8", "latin-1", "ascii">>

HighByte ==
    [b \in {"\\x82", "\\xA9", "\\xAC", "\\xC3", "\\xE2", "\\xFF"} |->
        CASE b = "\\x82" -> 130 [] b = "\\xA9" -> 169 [] b = "\\xAC" -> 172
          [] b = "\\xC3" -> 195 [] b = "\\xE2" -> 226 [] b = "\\xFF" -> 255]

IsAsciiByte(b) == b \notin DOMAIN HighByte
IsCont(b) == ~IsAsciiByte(b) /\ HighByte[b] >= 128 /\ HighByte[b] <= 191

\* the length of the UTF-8 sequence a lead byte announces (0: not a lead)
Utf8Len(b) ==
    IF IsAsciiByte(b) THEN 1
    ELSE IF HighByte[b] >= 194 /\ HighByte[b] <= 223 THEN 2
    ELSE IF HighByte[b] >= 224 /\ HighByte[b] <= 239 THEN 3
    ELSE IF HighByte[b] >= 240 /\ HighByte[b] <= 244 THEN 4
    ELSE 0

CodePoint(cp) == "U+" \o ToString(cp)

Utf8WellFormedAt(b, i) ==
    LET len == Utf8Len(b[i])
    IN  \/ IsAsciiByte(b[i])
        \/ /\ len > 0
           /\ i + len - 1 <= Len(b)
           /\ \A j \in 1..(len - 1) : IsCont(b[i + j])
           /\ (HighByte[b[i]] = 224 => HighByte[b[i + 1]] >= 160)
           /\ (HighByte[b[i]] = 237 => HighByte[b[i + 1]] <= 159)
           /\ (HighByte[b[i]] = 240 => HighByte[b[i + 1]] >= 144)
           /\ (HighByte[b[i]] = 244 => HighByte[b[i + 1]] <= 143)

\* position i continues a well-formed sequence that starts before it
Utf8CoveredAt(b, i) ==
    \E d \in 1..3 : /\ i - d >= 1
                    /\ Utf8Len(b[i - d]) > d
                    /\ Utf8WellFormedAt(b, i - d)
                    /\ \A j \in 1..(d - 1) : IsCont(b[i - j])

Utf8CharAt(b, i) ==
    LET len == Utf8Len(b[i])
        v(j) == HighByte[b[i + j]]
    IN  IF len = 1 THEN b[i]
        ELSE IF len = 2 THEN CodePoint((v(0) - 192) * 64 + (v(1) - 128))
        ELSE IF len = 3
        THEN CodePoint((v(0) - 224) * 4096 + (v(1) - 128) * 64 + (v(2) - 128))
        ELSE CodePoint((v(0) - 240) * 262144 + (v(1) - 128) * 4096
                       + (v(2) - 128) * 64 + (v(3) - 128))

DecodeError == [ok |-> FALSE, text |-> <<>>]

DecodeUtf8(b) ==
    LET IsStart(i) == ~IsCont(b[i])
        starts == SelectSeq([i \in 1..Len(b) |-> i], IsStart)
    IN  IF \A i \in 1..Len(b) :
               IF IsCont(b[i]) THEN Utf8CoveredAt(b, i) ELSE Utf8WellFormedAt(b, i)
        THEN [ok |-> TRUE, text |-> [k \in 1..Len(starts) |-> Utf8CharAt(b, starts[k])]]
        ELSE DecodeError

DecodeLatin1(b) ==
    [ok |-> TRUE,
     text |-> [i \in 1..Len(b) |->
                  IF IsAsciiByte(b[i]) THEN b[i] ELSE CodePoint(HighByte[b[i]])]]

DecodeAscii(b) ==
    IF \A i \in 1..Len(b) : IsAsciiByte(b[i]) THEN [ok |-> TRUE, text |-> b]
    ELSE DecodeError

\* content_bytes.decode(encoding)
BytesDecode(b, encoding) ==
    CASE encoding = "utf-8" -> DecodeUtf8(b)
      [] encoding = "latin-1" -> DecodeLatin1(b)
      [] encoding = "ascii" -> DecodeAscii(b)

-----------------------------------------------------------------------------
(* Inputs                                                                  *)

MaxRawLen == 2
MaxChunks == 4
MaxParts == 4

Unused == <<>>

RECURSIVE SeqsUpTo(_, _)
SeqsUpTo(S, len) ==
    IF len = 0 THEN {<<>>}
    ELSE LET shorter == SeqsUpTo(S, len - 1)
         IN  shorter \cup {Append(t, c) : t \in shorter, c \in S}

\* the three calibration values and the three other values of
\* decode_calibration_scale.py
CalibrationSample == 
    <<"4", "6", "6", "0", "5", "1", "8", "4", "4", "7", "8", "4", "8", "6", "4", "4", "4", "9", "9">>
CalibrationSample1 == 
    <<"4", "6", "6", "2", "9", "4", "7", "0", "3", "9", "2", "8", "2", "2", "8", "4", "4", "6", "3">>
CalibrationSample2 == 
    <<"4", "6", "6", "9", "5", "2", "5", "6", "4", "7", "1", "0", "3", "3", "8", "5", "4", "9", "1">>
FocusSample == 
    <<"4", "6", "0", "2", "3", "1", "7", "0", "5", "0", "1", "5", "7", "6", "5", "2", "5", "0", "2">>
NASample == 
    <<"4", "5", "9", "6", "3", "7", "3", "7", "7", "9", "6", "9", "4", "3", "2", "8", "2", "1", "8">>
WDSample == 
    <<"4", "6", "2", "6", "3", "2", "2", "7", "1", "7", "2", "1", "6", "3", "4", "2", "0", "1", "6">>
\* the bit patterns of 1.0, -2.5, +inf and a NaN; 2^64 - 1 and 2^64
OneBits == 
    <<"4", "6", "0", "7", "1", "8", "2", "4", "1", "8", "8", "0", "0", "0", "1", "7", "4", "0", "8">>
MinusTwoAndHalfBits == 
    <<"1", "3", "8", "3", "6", "1", "8", "3", "9", "5", "5", "1", "8", "9", "0", "0", "6", "3", "3", "6">>
InfBits == 
    <<"9", "2", "1", "8", "8", "6", "8", "4", "3", "7", "2", "2", "7", "4", "0", "5", "3", "1", "2">>
NaNBits == 
    <<"9", "2", "2", "1", "1", "2", "0", "2", "3", "7", "0", "4", "1", "0", "9", "0", "5", "6", "0">>
MaxU64Text == 
    <<"1", "8", "4", "4", "6", "7", "4", "4", "0", "7", "3", "7", "0", "9", "5", "5", "1", "6", "1", "5">>
TwoTo64Text == 
    <<"1", "8", "4", "4", "6", "7", "4", "4", "0", "7", "3", "7", "0", "9", "5", "5", "1", "6", "1", "6">>

RawAlphabet == {"0", "1", "7", "-", "+", "_", " ", "a"}

RawInputs ==
    SeqsUpTo(RawAlphabet, MaxRawLen)
    \cup {CalibrationSample, CalibrationSample1, CalibrationSample2, FocusSample,
          NASample, WDSample, OneBits, MinusTwoAndHalfBits, InfBits, NaNBits,
          MaxU64Text, TwoTo64Text, <<"a", "b", "c">>, <<"-", "0">>,
          <<"0">> \o OneBits, <<"-">> \o OneBits}

OpenTag(name) == <<"<", name, " ", ">">>
CloseTag(name) == <<"<", "/", name, ">">>
Elem(name, text) == OpenTag(name) \o text \o CloseTag(name)

\* the _extract_value calls of parse_metadata that are exercised, one or
\* two of each extraction shape
ExtractCalls ==
    {[tag |-> "Comment", subtag |-> NoArg, search_in |-> NoArg],
     [tag |-> "OriginalImageSize", subtag |-> "Width", search_in |-> NoArg],
     [tag |-> "PseudoColor", subtag |-> NoArg, search_in |-> "Parameter"],
     [tag |-> "Binnin", subtag |-> NoArg, search_in |-> "Parameter"]}

\* the pieces a section text is put together from, per extraction shape
Chunks(call) ==
    IF call.search_in # NoArg
    THEN {OpenTag("Parameter"), CloseTag("Parameter"), <<"<", "Parameter", " ">>,
          Elem("PseudoColor", <<"5">>), Elem("Binnin", <<"2">>),
          Elem("Binning", <<"3">>)}
    ELSE IF call.subtag # NoArg
    THEN {OpenTag("OriginalImageSize"), CloseTag("OriginalImageSize"),
          OpenTag("SavingImageSize"), CloseTag("SavingImageSize"),
          Elem("Width", <<"5">>), Elem("Width", <<" ", "7">>)}
    ELSE {OpenTag("Comment"), CloseTag("Comment"), <<"<", "Comment", " ">>,
          <<"5">>, <<"7", " ">>, Elem("b", <<"9">>)}

\* the pieces a file content is put together from
Parts ==
    {<<"<", "Data", ">">>, <<"<", "/", "Data", ">">>, OpenTag("Image"),
     OpenTag("Image") \o Elem("Comment", <<"5">>) \o CloseTag("Image"),
     OpenTag("Lens") \o Elem("Magnification", <<"4">>) \o CloseTag("Lens"),
     OpenTag("Shooting") \o Elem("Channel", <<"1">>) \o CloseTag("Shooting")}

\* the files main is run on: bytes that are not text, then a document
CalibrationRaws ==
    {CalibrationSample, OneBits, InfBits, <<"-", "1">>, TwoTo64Text,
     <<"a", "b", "c">>, <<>>}
FocusElems == {<<>>, Elem("Focus", FocusSample), Elem("Focus", NaNBits)}
CommentElems == {<<>>, Elem("Comment", OneBits)}
LensBlocks ==
    {<<>>,
     OpenTag("Lens") \o Elem("Magnification", <<"4">>)
         \o Elem("NumericalAperture", NASample) \o CloseTag("Lens"),
     OpenTag("Lens") \o Elem("WorkingDistance", <<"a", "b", "c">>) \o CloseTag("Lens")}
Documents ==
    {open \o OpenTag("Image") \o comment \o Elem("Calibration", cal) \o focus
          \o CloseTag("Image") \o lens \o <<"<", "/", "Data", ">">> :
        open \in {<<"<", "Data", ">">>, <<>>}, comment \in CommentElems,
        cal \in CalibrationRaws, focus \in FocusElems, lens \in LensBlocks}
Prefixes == {<<>>, <<"\\xC3", "\\xA9">>, <<"\\xFF">>}
Files == {prefix \o doc : prefix \in Prefixes, doc \in Documents}

-----------------------------------------------------------------------------
(* decode_double on its own, then the bit pattern of the double it gave    *)

InitDecode ==
    /\ pc = "call"
    /\ value \in RawInputs
    /\ result = None
    /\ reencoded = <<>>
    /\ data_str = Unused /\ tag = Unused /\ subtag = Unused /\ search_in = Unused
    /\ extracted = Unused /\ nparts = 0 /\ content = Unused /\ metadata = Unused
    /\ file_exists = FALSE /\ content_bytes = Unused /\ tried = Unused
    /\ formatted_output = Unused /\ error = Unused

CallDecodeDouble ==
    /\ pc = "call"
    /\ result' = decode_double(value)
    /\ pc' = IF result'.kind = "raise" THEN "raised" ELSE "returned"
    /\ UNCHANGED <<value, reencoded, extractVars, nparts, content, metadata, mainVars>>

\* struct.unpack('Q', struct.pack('d', result))[0]
Reencode ==
    /\ pc = "returned"
    /\ result.kind = "float"
    /\ reencoded' = UnpackQ(PackD(result))
    /\ pc' = "reencoded"
    /\ UNCHANGED <<value, result, extractVars, nparts, content, metadata, mainVars>>

NextDecode == CallDecodeDouble \/ Reencode

SpecDecode == InitDecode /\ [][NextDecode]_vars

-----------------------------------------------------------------------------
(* _extract_value on its own                                               *)

InitExtract ==
    /\ pc = "build"
    /\ \E call \in ExtractCalls :
           tag = call.tag /\ subtag = call.subtag /\ search_in = call.search_in
    /\ data_str = <<>>
    /\ nparts = 0
    /\ extracted = None
    /\ value = Unused /\ result = Unused /\ reencoded = Unused
    /\ content = Unused /\ metadata = Unused
    /\ file_exists = FALSE /\ content_bytes = Unused /\ tried = Unused
    /\ formatted_output = Unused /\ error = Unused

AppendChunk ==
    /\ pc = "build"
    /\ nparts < MaxChunks
    /\ \E c \in Chunks([tag |-> tag, subtag |-> subtag, search_in |-> search_in]) :
           data_str' = data_str \o c
    /\ nparts' = nparts + 1
    /\ UNCHANGED <<pc, tag, subtag, search_in, extracted, decodeVars, content,
                   metadata, mainVars>>

CallExtractValue ==
    /\ pc = "build"
    /\ extracted' = _extract_value(data_str, tag, subtag, search_in)
    /\ pc' = "done"
    /\ UNCHANGED <<data_str, tag, subtag, search_in, nparts, decodeVars, content,
                   metadata, mainVars>>

NextExtract == AppendChunk \/ CallExtractValue

SpecExtract == InitExtract /\ [][NextExtract]_vars

-----------------------------------------------------------------------------
(* parse_metadata on its own                                               *)

InitParse ==
    /\ pc = "build"
    /\ content = <<>>
    /\ nparts = 0
    /\ metadata = <<>>
    /\ value = Unused /\ result = Unused /\ reencoded = Unused
    /\ data_str = Unused /\ tag = Unused /\ subtag = Unused /\ search_in = Unused
    /\ extracted = Unused
    /\ file_exists = FALSE /\ content_bytes = Unused /\ tried = Unused
    /\ formatted_output = Unused /\ error = Unused

AppendPart ==
    /\ pc = "build"
    /\ nparts < MaxParts
    /\ \E part \in Parts : content' = content \o part
    /\ nparts' = nparts + 1
    /\ UNCHANGED <<pc, metadata, decodeVars, extractVars, mainVars>>

CallParseMetadata ==
    /\ pc = "build"
    /\ metadata' = parse_metadata(content)
    /\ pc' = "done"
    /\ UNCHANGED <<content, nparts, decodeVars, extractVars, mainVars>>

NextParse == AppendPart \/ CallParseMetadata

SpecParse == InitParse /\ [][NextParse]_vars

-----------------------------------------------------------------------------
(* main: read_tiff_content, parse_metadata, format_metadata, output        *)

NoError == [stage |-> "none", exc |-> "none"]

Init ==
    /\ pc = "open"
    /\ \/ file_exists = TRUE /\ content_bytes \in Files
       \/ file_exists = FALSE /\ content_bytes = <<>>
    /\ tried = <<>>
    /\ content = <<>>
    /\ metadata = <<>>
    /\ formatted_output = None
    /\ error = NoError
    /\ value = Unused /\ result = Unused /\ reencoded = Unused
    /\ data_str = Unused /\ tag = Unused /\ subtag = Unused /\ search_in = Unused
    /\ extracted = Unused /\ nparts = 0

\* open(file_path, 'rb') and f.read(); FileNotFoundError is raised again
\* and ends main in "except Exception"
OpenFile ==
    /\ pc = "open"
    /\ IF file_exists
       THEN pc' = "decode" /\ UNCHANGED error
       ELSE pc' = "exit1" /\ error' = [stage |-> "open", exc |-> "FileNotFoundError"]
    /\ UNCHANGED <<file_exists, content_bytes, tried, formatted_output, content,
                   metadata, nparts, decodeVars, extractVars>>

\* one turn of "for encoding in [...]"; after the last encoding has
\* failed, the raise below the loop, which "except Exception" turns into
\* Exception("Error reading file: ...")
TryEncoding ==
    /\ pc = "decode"
    /\ \E encoding \in {Encodings[Len(tried) + 1]} :
       \E decoded \in {BytesDecode(content_bytes, encoding)} :
           /\ tried' = Append(tried, encoding)
           /\ IF decoded.ok
              THEN pc' = "parse" /\ content' = decoded.text /\ UNCHANGED error
              ELSE IF Len(tried) + 1 = Len(Encodings)
              THEN /\ pc' = "exit1"
                   /\ error' = [stage |-> "decode", exc |-> "Exception"]
                   /\ UNCHANGED content
              ELSE UNCHANGED <<pc, content, error>>
    /\ UNCHANGED <<file_exists, content_bytes, formatted_output, metadata, nparts,
                   decodeVars, extractVars>>

ParseMetadata ==
    /\ pc = "parse"
    /\ metadata' = parse_metadata(content)
    /\ pc' = "format"
    /\ UNCHANGED <<content, nparts, decodeVars, extractVars, mainVars>>

\* formatted_output = format_metadata(metadata, args.output); an exception
\* ends main in "except Exception"
FormatMetadata ==
    /\ pc = "format"
    /\ \E output \in {"table", "dict"} :
           \E out \in {format_metadata(metadata, output)} :
               IF out.kind = "raise"
               THEN /\ pc' = "exit1"
                    /\ error' = [stage |-> "format", exc |-> out.exc]
                    /\ UNCHANGED formatted_output
               ELSE /\ pc' = "emit"
                    /\ formatted_output' = out
                    /\ UNCHANGED error
    /\ UNCHANGED <<file_exists, content_bytes, tried, content, metadata, nparts,
                   decodeVars, extractVars>>

\* print(formatted_output)
PrintOutput ==
    /\ pc = "emit"
    /\ pc' = "done"
    /\ UNCHANGED <<content, metadata, nparts, decodeVars, extractVars, mainVars>>

\* open(args.output_file, 'w') and outfile.write(...), which the file
\* system lets succeed or not
WriteOutputFile ==
    /\ pc = "emit"
    /\ \E writable \in BOOLEAN :
           IF writable
           THEN pc' = "done" /\ UNCHANGED error
           ELSE pc' = "exit1" /\ error' = [stage |-> "write", exc |-> "OSError"]
    /\ UNCHANGED <<file_exists, content_bytes, tried, formatted_output, content,
                   metadata, nparts, decodeVars, extractVars>>

Next ==
    \/ OpenFile
    \/ TryEncoding
    \/ ParseMetadata
    \/ FormatMetadata
    \/ PrintOutput
    \/ WriteOutputFile

Spec == Init /\ [][Next]_vars

-----------------------------------------------------------------------------
(* Properties.  Where a tag opens and closes in a text is read off the     *)
(* positions of its symbols.                                               *)

OpensAt(s, name, i) ==
    i + 2 <= Len(s) /\ s[i] = "<" /\ s[i + 1] = name /\ s[i + 2] = " "
ClosesAt(s, name, j) ==
    j + 3 <= Len(s) /\ s[j] = "<" /\ s[j + 1] = "/" /\ s[j + 2] = name /\ s[j + 3] = ">"
Opens(s, name) == {i \in 1..Len(s) : OpensAt(s, name, i)}
Closes(s, name) == {j \in 1..Len(s) : ClosesAt(s, name, j)}

\* the value text reads as an integer that fits in 64 unsigned bits
ReadsAsUInt64(parsed) ==
    parsed.kind = "int" /\ ~(parsed.neg /\ parsed.mag # BigZero)
    /\ BigLess(parsed.mag, TwoTo64)
IsUInt64Text(v) == ReadsAsUInt64(ParseInt(v))

\* C1: whenever the argument is not the text of an integer in 0 .. 2^64-1,
\* decode_double returns None; it never raises.
C1_FailureIsNoneNeverRaised ==
    (pc # "call" /\ ~IsUInt64Text(value)) => (pc = "returned" /\ result = None)

\* the decimal text of an integer in 0 .. 2^64-1
IsDecimalOfUInt64(v) ==
    /\ v # <<>>
    /\ \A k \in 1..Len(v) : IsDigit(v[k])
    /\ (Len(v) > 1 => v[1] # "0")
    /\ BigLess(DigitVals(v), TwoTo64)

\* C9: for the decimal text of every N in 0 .. 2^64-1, decode_double returns
\* a double, the bit pattern of that double read back as an unsigned integer
\* is N, and 4607182418800017408 gives exactly 1.0.
C9_BitCastRoundTrips ==
    IsDecimalOfUInt64(value) =>
        /\ pc # "call" => (pc # "raised" /\ result.kind = "float")
        /\ pc = "reencoded" => reencoded = DigitVals(value)
        /\ (pc # "call" /\ value = OneBits) => result = Float(0, 1023, BigZero)

C9_Witness ==
    /\ pc = "reencoded"
    /\ value = CalibrationSample
    /\ result = Float(0, 1034, <<3, 7, 9, 6, 4, 3, 3, 1, 4, 7, 5, 5, 1, 6, 3, 5>>)
    /\ reencoded = DigitVals(CalibrationSample)

\* the value the occurrence of the tag that opens at position i yields
ValueOfOccurrence(s, name, i) ==
    StrippedGroup(s, MatchAt(DirectPattern(name), 1, s, i, i, 0, 0))

\* C5: in a text where the tag opens more than once, a direct field has the
\* value of the first occurrence, and is absent when that one yields none.
C5_OnlyFirstOccurrence ==
    (/\ pc = "done" /\ subtag = NoArg /\ search_in = NoArg
     /\ Cardinality(Opens(data_str, tag)) > 1)
    => extracted = ValueOfOccurrence(data_str, tag, SetMin(Opens(data_str, tag)))

\* position p lies after a complete opening tag of the wrapper and before
\* a closing tag of it
InsideBlock(s, wrapper, p) ==
    /\ \E i \in Opens(s, wrapper) : \E g \in (i + 3)..(p - 1) : s[g] = ">"
    /\ \E j \in Closes(s, wrapper) : j > p

OwnClose(s, name, i) ==
    LET balanced == {j \in Closes(s, name) :
                        /\ j > i
                        /\ Cardinality({c \in Closes(s, name) : c > i /\ c <= j})
                           = Cardinality({o \in Opens(s, name) : o > i /\ o < j}) + 1}
    IN  IF balanced = {} THEN 0 ELSE SetMin(balanced)

\* C10: the value of a nested-pair field is the text of a sub-tag element
\* that lies between the opening tag of an outer element and that
\* element's own closing tag.
C10_SubTagInsideOuterElement ==
    (pc = "done" /\ subtag # NoArg /\ extracted # None)
    => \E i \in Opens(data_str, tag) : \E p \in Opens(data_str, subtag) :
           /\ i < p /\ p < OwnClose(data_str, tag, i)
           /\ ValueOfOccurrence(data_str, subtag, p) = extracted

\* the text between the first <Data> and the first </Data> after it
DataOpens(s) ==
    {i \in 1..Len(s) : i + 2 <= Len(s) /\ s[i] = "<" /\ s[i + 1] = "Data" /\ s[i + 2] = ">"}
HasDataBlock(s) == \E i \in DataOpens(s) : \E j \in Closes(s, "Data") : i + 3 <= j
DataBlock(s) ==
    LET i == SetMin(DataOpens(s))
    IN  SubSeq(s, i + 3, SetMin({j \in Closes(s, "Data") : i + 3 <= j}) - 1)

\* the section has an opening tag, complete with its ">", and after that
\* a closing tag
SectionPresent(data, name) ==
    \E i \in Opens(data, name) : \E g \in (i + 3)..Len(data) :
        data[g] = ">" /\ \E j \in Closes(data, name) : j > g

FieldKey(f) == IF f.is_double THEN f.key \o <<"*">> ELSE f.key
KeysOf(fields) == {FieldKey(fields[i]) : i \in 1..Len(fields)}
Sections ==
    {[name |-> "Image", fields |-> ImageFields],
     [name |-> "Lens", fields |-> LensFields],
     [name |-> "Shooting", fields |-> ShootingFields]}

UniqueKeys(d) == \A i, j \in 1..Len(d) : d[i].k = d[j].k => i = j

C4_NoDataBlockGivesEmptyRecord ==
    pc = "done" =>
        /\ ~HasDataBlock(content) => metadata = <<>>
        /\ \A i \in 1..Len(metadata) : metadata[i].v.kind \in {"None", "str"}

C4_Witness ==
    /\ pc = "done"
    /\ DataOpens(content) # {} /\ Opens(content, "Image") # {}
    /\ ~HasDataBlock(content)
    /\ metadata = <<>>

-----------------------------------------------------------------------------
(* Properties of main                                                      *)

ReadDone == pc \in {"parse", "format", "emit", "done"}
              \/ (pc = "exit1" /\ error.stage \in {"format", "write"})
Formatted == pc \in {"emit", "done"} \/ (pc = "exit1" /\ error.stage \in {"format", "write"})

IsPrefix(a, b) == Len(a) <= Len(b) /\ \A i \in 1..Len(a) : a[i] = b[i]

\* C7: the encodings are attempted in the order utf-8, latin-1, ascii; the
\* text returned is that of the first encoding that decodes the bytes, and
\* none is attempted after it; a decode failure is reported exactly when
\* all three were attempted and failed.
C7_FirstEncodingThatDecodes ==
    /\ IsPrefix(tried, <<"utf-8", "latin-1", "ascii">>)
    /\ ReadDone =>
           /\ tried # <<>>
           /\ BytesDecode(content_bytes, tried[Len(tried)]).ok
           /\ content = BytesDecode(content_bytes, tried[Len(tried)]).text
           /\ \A j \in 1..(Len(tried) - 1) : ~BytesDecode(content_bytes, tried[j]).ok
    /\ (pc = "exit1" /\ error.stage = "decode")
           <=> (/\ tried = <<"utf-8", "latin-1", "ascii">>
                /\ \A j \in 1..3 : ~BytesDecode(content_bytes, tried[j]).ok)

C7_Witness ==
    /\ pc = "parse"
    /\ tried = <<"utf-8", "latin-1">>
    /\ content[1] = "U+255"

\* C2: when a double field of the record has a value that does not read as
\* a 64-bit unsigned integer, format_metadata gives that field the marker
\* "Could not decode", gives every other field that has a value its own
\* value, and main does not end in its error path because of it.
C2_DecodeFailureStaysLocal ==
    (/\ Formatted
     /\ \E i \in 1..Len(metadata) :
            /\ EndsWithStar(metadata[i].k) /\ metadata[i].v # None
            /\ ~IsUInt64Text(metadata[i].v.s))
    => /\ ~(pc = "exit1" /\ error.stage = "format")
       /\ formatted_output.kind = "dict" =>
              \A i \in 1..Len(metadata) :
                  metadata[i].v # None =>
                      /\ HasKey(formatted_output.d, metadata[i].k)
                      /\ (EndsWithStar(metadata[i].k) /\ ~IsUInt64Text(metadata[i].v.s))
                             => DictGet(formatted_output.d, metadata[i].k) = CouldNotDecode
                      /\ ~EndsWithStar(metadata[i].k)
                             => DictGet(formatted_output.d, metadata[i].k) = metadata[i].v

\* digits, a point and six digits, after an optional sign
HasSixDecimals(t) ==
    /\ Len(t) >= 8
    /\ t[Len(t) - 6] = "."
    /\ \A k \in (Len(t) - 5)..Len(t) : IsDigit(t[k])
    /\ \A k \in 2..(Len(t) - 7) : IsDigit(t[k])
    /\ IsDigit(t[1]) \/ (t[1] = "-" /\ Len(t) >= 9)

IsFinite(x) == x.exp # 2047

\* what the claim says of the entry of key k with raw value v (a text),
\* shown as the text shown; sixDecimals tells whether the six decimals
\* are asked of this value
RenderedAsClaimed(k, v, shown, sixDecimals) ==
    IF ~EndsWithStar(k) THEN shown = v
    ELSE IF ~IsUInt64Text(v.s) THEN TRUE
    ELSE IF k = <<"Calibration", "*">>
    THEN /\ shown = Str(Format6f(DivideBy1000(decode_double(v.s))) \o UmPixel)
         /\ Len(shown.s) > Len(UmPixel)
         /\ SubSeq(shown.s, Len(shown.s) - Len(UmPixel) + 1, Len(shown.s)) = UmPixel
         /\ sixDecimals =>
                HasSixDecimals(SubSeq(shown.s, 1, Len(shown.s) - Len(UmPixel)))
    ELSE /\ shown = Str(Format6f(decode_double(v.s)))
         /\ sixDecimals => HasSixDecimals(shown.s)

\* C8 as stated: Calibration alone is divided by 1000 and shown with six
\* decimals and " um/pixel"; the other double fields are shown as decoded
\* with six decimals; the other fields keep their raw text.
C8_CalibrationAloneIsScaled ==
    (pc \in {"emit", "done"} /\ formatted_output.kind = "dict") =>
        \A i \in 1..Len(metadata) :
            metadata[i].v # None =>
                /\ HasKey(formatted_output.d, metadata[i].k)
                /\ RenderedAsClaimed(metadata[i].k, metadata[i].v,
                                     DictGet(formatted_output.d, metadata[i].k), TRUE)

\* C8 as amended: the same, with the six decimals for the finite decoded
\* values only; an infinity or a NaN is shown as "inf", "-inf" or "nan".
C8_CalibrationAloneIsScaledFinite ==
    (pc \in {"emit", "done"} /\ formatted_output.kind = "dict") =>
        \A i \in 1..Len(metadata) :
            metadata[i].v # None =>
                /\ HasKey(formatted_output.d, metadata[i].k)
                /\ RenderedAsClaimed(metadata[i].k, metadata[i].v,
                                     DictGet(formatted_output.d, metadata[i].k),
                                     IsUInt64Text(metadata[i].v.s)
                                         /\ IsFinite(decode_double(metadata[i].v.s)))
                /\ (/\ EndsWithStar(metadata[i].k) /\ IsUInt64Text(metadata[i].v.s)
                    /\ ~IsFinite(decode_double(metadata[i].v.s)))
                       => Format6f(decode_double(metadata[i].v.s))
                              \in {<<"i", "n", "f">>, <<"-", "i", "n", "f">>,
                                   <<"n", "a", "n">>}

C8_Witness ==
    /\ pc = "emit" /\ formatted_output.kind = "dict"
    /\ HasKey(formatted_output.d, <<"Calibration", "*">>)
    /\ DictGet(formatted_output.d, <<"Calibration", "*">>)
           = Str(<<"3", ".", "7", "7", "4", "4", "1", "8", " ", "u", "m", "/", "p", "i", "x", "e", "l">>)
    /\ HasKey(formatted_output.d, <<"Focus", "*">>)
    /\ DictGet(formatted_output.d, <<"Focus", "*">>) = Str(<<"0", ".", "4", "7", "9", "9", "1", "8">>)
    /\ HasKey(formatted_output.d, <<"Comment">>)
    /\ DictGet(formatted_output.d, <<"Comment">>) = Str(OneBits)

=============================================================================
